---- MODULE Spec2Model ----
(***************************************************************************)
(* Resource accounting core of projecteru2/core (package calcium):         *)
(* PodResource, NodeResource, doGetNodeResource, doFixDiffResource,        *)
(* doAllocResource, remapResource and doRemapResourceAndLog.               *)
(*                                                                         *)
(* Numbers are small integers.  CPU quota (a float64 in the code) is       *)
(* counted in half units of the rounding precision of utils.Round, so that *)
(* rounding is not the identity.  A float64 quotient is kept as a reduced  *)
(* fraction <<num, den>>; den = 0 stands for +Inf, -Inf (num = 1, -1) and  *)
(* NaN (num = 0).                                                          *)
(***************************************************************************)
EXTENDS Integers, Sequences, FiniteSets, TLC

\* ------------------------------------------------------------------ bounds
MaxShare == 2
MaxMem == 2
MaxStorage == 1
MaxCount == 2

\* ------------------------------------------------------------- universes
Procs == {"p1", "p2"}
Nodes == {"n1", "n2"}
Cores == {0, 1}
None == "none"
Nil == "nil"
Null == [null |-> TRUE]
EmptyMap == [i \in {} |-> 0]

\* ------------------------------------------------------------ pure parts
\* reading a Go map at a missing key yields the zero value
Get(m, i) == IF i \in DOMAIN m THEN m[i] ELSE 0

\* types.CPUMap.Add: merge q into c core by core
CPUMapAdd(c, q) == [i \in (DOMAIN c) \cup (DOMAIN q) |-> Get(c, i) + Get(q, i)]

\* utils.Round: round to the fixed precision (two half units), half up
Round(x) == ((x + 1) \div 2) * 2

Abs(x) == IF x < 0 THEN 0 - x ELSE x

RECURSIVE GCD(_, _)
GCD(a, b) == IF b = 0 THEN a ELSE GCD(b, a % b)

\* float64(a) / float64(b)
FDiv(a, b) ==
    IF b = 0 THEN <<(IF a > 0 THEN 1 ELSE IF a < 0 THEN 0 - 1 ELSE 0), 0>>
    ELSE LET g == GCD(Abs(a), Abs(b))
             s == IF b < 0 THEN 0 - 1 ELSE 1
         IN  <<(s * a) \div g, (s * b) \div g>>

FZero == <<0, 1>>

RECURSIVE SumMap(_)
SumMap(m) ==
    IF DOMAIN m = {} THEN 0
    ELSE LET k == CHOOSE x \in DOMAIN m : TRUE
         IN  m[k] + SumMap([i \in (DOMAIN m) \ {k} |-> m[i]])

\* types.VolumeMap.Total
VolumeTotal(v) == SumMap(v)

\* the orders in which a Go range statement may visit the keys of a map
Orders(S) ==
    {s \in [1..Cardinality(S) -> S] :
        \A i, j \in 1..Cardinality(S) : i # j => s[i] # s[j]}

\* lines 70-79 of doGetNodeResource: the sums over the node's workloads
RECURSIVE Accumulate(_)
Accumulate(ws) ==
    IF ws = <<>>
    THEN [cpus |-> 0, memory |-> 0, storage |-> 0, cpumap |-> EmptyMap]
    ELSE LET a == Accumulate(SubSeq(ws, 1, Len(ws) - 1))
             w == ws[Len(ws)]
         IN  [cpus    |-> Round(a.cpus + w.CPUQuotaRequest),
              memory  |-> a.memory + w.MemoryRequest,
              storage |-> a.storage + w.StorageRequest,
              cpumap  |-> CPUMapAdd(a.cpumap, w.CPU)]

\* lines 82-88: NUMA percentages, only for ids present in both maps
NUMAPercent(node) ==
    [k \in (DOMAIN node.NUMAMemory) \cap (DOMAIN node.InitNUMAMemory) |->
        FDiv(node.NUMAMemory[k], node.InitNUMAMemory[k])]

\* lines 89-91: the aggregate cpu usage check
CPUUsedDiff(node, cpus) ==
    IF cpus # node.CPUUsed THEN << <<"cpus", node.CPUUsed, cpus>> >> ELSE <<>>

\* lines 93-97: per-core check over the merged map, visited in `order`
CoreDiffs(initCPU, merged, order) ==
    LET all == [k \in 1..Len(order) |->
                  <<"cpu", order[k], Get(initCPU, order[k]) - merged[order[k]]>>]
    IN  SelectSeq(all, LAMBDA e : e[3] # 0)

\* lines 99-101: the memory check
MemoryDiff(node, memory) ==
    IF memory + node.MemCap # node.InitMemCap
    THEN << <<"memory", node.MemCap, node.InitMemCap - (memory + node.MemCap)>> >>
    ELSE <<>>

\* a variant of StorageCheck without the InitStorageCap guard
StorageCheckUnguarded(node, storage) ==
    [percent |-> FDiv(storage, node.InitStorageCap),
     diffs   |-> IF storage + node.StorageCap # node.InitStorageCap
                 THEN << <<"storage", node.StorageCap,
                           node.InitStorageCap - (storage + node.StorageCap)>> >>
                 ELSE <<>>]

\* lines 103-109: storage percentage and storage check
StorageCheck(node, storage) ==
    IF node.InitStorageCap # 0
    THEN [percent |-> FDiv(storage, node.InitStorageCap),
          diffs   |-> IF storage + node.StorageCap # node.InitStorageCap
                      THEN << <<"storage", node.StorageCap,
                                node.InitStorageCap - (storage + node.StorageCap)>> >>
                      ELSE <<>>]
    ELSE [percent |-> FZero, diffs |-> <<>>]

\* a variant of FixCompute that leaves CPUUsed as fetched
FixComputeKeepUsed(n, node, cpus, memory, storage) ==
    [n EXCEPT
        !.CPU = [i \in (DOMAIN n.CPU) \cup (DOMAIN node.CPU) |->
                    IF i \in DOMAIN node.CPU
                    THEN Get(n.CPU, i) + (Get(node.InitCPU, i) - node.CPU[i])
                    ELSE n.CPU[i]],
        !.MemCap = n.MemCap + (node.InitMemCap - (memory + node.MemCap)),
        !.StorageCap = n.StorageCap + (node.InitStorageCap - (storage + node.StorageCap))]

\* lines 133-138 of doFixDiffResource: the corrected node
FixCompute(n, node, cpus, memory, storage) ==
    [n EXCEPT
        !.CPUUsed = cpus,
        !.CPU = [i \in (DOMAIN n.CPU) \cup (DOMAIN node.CPU) |->
                    IF i \in DOMAIN node.CPU
                    THEN Get(n.CPU, i) + (Get(node.InitCPU, i) - node.CPU[i])
                    ELSE n.CPU[i]],
        !.MemCap = n.MemCap + (node.InitMemCap - (memory + node.MemCap)),
        !.StorageCap = n.StorageCap + (node.InitStorageCap - (storage + node.StorageCap))]

\* -------------------------------------------------------------- the data
InitCPUMap == [c \in Cores |-> MaxShare]

W1 == [ID |-> "w1", CPUQuotaRequest |-> 3, CPUQuotaLimit |-> 3, MemoryRequest |-> 1,
       StorageRequest |-> 1, CPU |-> (0 :> 1), NUMANode |-> "0"]
W2 == [ID |-> "w2", CPUQuotaRequest |-> 2, CPUQuotaLimit |-> 2, MemoryRequest |-> 1,
       StorageRequest |-> 0, CPU |-> (0 :> 1 @@ 1 :> 2), NUMANode |-> ""]
W3 == [ID |-> "w3", CPUQuotaRequest |-> 2, CPUQuotaLimit |-> 4, MemoryRequest |-> 1,
       StorageRequest |-> 1, CPU |-> (1 :> 1), NUMANode |-> ""]

\* types.Node with the given bookkeeping; the remaining fields are fixed
MakeNode(name, cpu, used, memcap, storagecap, initstorage) ==
    [Name |-> name, CPU |-> cpu, InitCPU |-> InitCPUMap, CPUUsed |-> used,
     MemCap |-> memcap, InitMemCap |-> MaxMem,
     StorageCap |-> storagecap, InitStorageCap |-> initstorage,
     VolumeUsed |-> 0,
     InitVolume |-> IF name = "n1" THEN (1 :> 2) ELSE EmptyMap,
     NUMAMemory |-> (0 :> 1 @@ 1 :> 1), InitNUMAMemory |-> (0 :> 2)]

\* the bookkeeping that agrees with the workloads ws
ConsistentNode(name, ws) ==
    LET a == Accumulate(ws)
    IN  MakeNode(name, [c \in Cores |-> MaxShare - Get(a.cpumap, c)], a.cpus,
                 MaxMem - a.memory, MaxStorage - a.storage, MaxStorage)

\* the bookkeeping of an idle node (stale when the node has workloads)
IdleNode(name) == MakeNode(name, InitCPUMap, 0, MaxMem, MaxStorage, MaxStorage)

CPUMaps == UNION {[S -> 0..MaxShare] : S \in SUBSET Cores}
UsedValues == {0, 4}

\* store.GetNodesByPod behind ListPodNodes: the node names of a pod, in order
Pods == {"empty", "pod", "dop"}
PodNodes(pod) ==
    IF pod = "pod" THEN <<"n1", "n2">>
    ELSE IF pod = "dop" THEN <<"n2", "n1">>
    ELSE <<>>

\* doCalculateCapacity: instances each node can still take, by free memory
CalculateCapacity(nodeMap, opts) ==
    LET cap == [n \in DOMAIN nodeMap |->
                  IF nodeMap[n].MemCap > 0 THEN nodeMap[n].MemCap \div opts.Memory ELSE 0]
    IN  [total |-> cap,
         plans |-> [n \in DOMAIN nodeMap |-> <<"plan", n, opts.Memory>>],
         infos |-> [n \in DOMAIN nodeMap |-> [Nodename |-> n, Capacity |-> cap[n]]]]

\* strategy.Deploy: fill the nodes in name order up to their capacity
StrategyDeploy(opts, infos, total) ==
    LET first == IF "n1" \in DOMAIN total
                 THEN (IF total["n1"] < opts.Count THEN total["n1"] ELSE opts.Count)
                 ELSE 0
    IN  [n \in DOMAIN total |-> IF n = "n1" THEN first ELSE opts.Count - first]

\* -------------------------------------------------------------- the state
VARIABLES
    store,        \* persisted nodes, by name
    workloads,    \* persisted workloads of each node, in listing order
    deployStatus, \* the deploy status staged last by MakeDeployStatus
    lock,         \* holder of each node lock, or None
    validateErr,  \* nodes whose engine reports a ResourceValidate error
    dead,         \* ids of workloads whose Inspect fails
    pc,           \* position of each caller
    frame,        \* locals of each caller's current call
    ret,          \* what each caller's last call returned
    trace,        \* store/engine/strategy calls made by the current call
    last,         \* history: the NodeResource call that returned last
    cancelled     \* where in its remap each caller's request context was
                  \* cancelled, "" when it was not

vars == <<store, workloads, deployStatus, lock, validateErr, dead, pc, frame, ret,
          trace, last, cancelled>>
envVars == <<workloads, validateErr, dead, cancelled>>

NoRet == [kind |-> "", val |-> Null, err |-> Nil]
NoLast == [node |-> "", fix |-> FALSE, ok |-> FALSE, rep |-> Null]

Frame0 ==
    [kind |-> "", nodename |-> "", fix |-> FALSE, podname |-> "",
     node |-> Null, nr |-> Null, acc |-> Null, n |-> Null,
     ferr |-> Nil, gerr |-> Nil, i |-> 0, nodes |-> <<>>, r |-> <<>>,
     ch |-> <<>>, streamed |-> FALSE, sent |-> <<>>, logged |-> <<>>, remapOpts |-> Null,
     nodeMap |-> Null, opts |-> Null, calc |-> Null,
     stale |-> FALSE, ctx |-> "request"]

\* ------------------------------------------------- the node lock and Txn
\* store-backed node lock behind withNodeLocked: acquisition
AcquireNodeLock(p, n) == lock[n] = None /\ lock' = [lock EXCEPT ![n] = p]

\* store-backed node lock behind withNodeLocked: scoped release
ReleaseNodeLock(p, n) ==
    lock' = [lock EXCEPT ![n] = IF lock[n] = p THEN None ELSE lock[n]]

\* utils.Txn: run `then` only when `cond` returned no error
TxnAfterCond(condErr) == IF condErr = Nil THEN "fix_then" ELSE "gnr_return"

Call(p, entry) == trace' = [trace EXCEPT ![p] = Append(trace[p], entry)]

\* the caller gets (val, err) back and is idle again
Return(p, val, err) ==
    /\ ret' = [ret EXCEPT ![p] = [kind |-> frame[p].kind, nodename |-> frame[p].nodename,
                                  fix |-> frame[p].fix, podname |-> frame[p].podname,
                                  val |-> val, err |-> err]]
    /\ pc' = [pc EXCEPT ![p] = "idle"]
    /\ frame' = [frame EXCEPT ![p] = Frame0]

\* ------------------------------------------------------------ NodeResource
\* lines 39-45: the name check, then the call of doGetNodeResource
StartNodeResource(p) ==
    /\ pc[p] = "idle"
    /\ \E name \in Nodes \cup {""}, fix \in BOOLEAN :
        LET f == [Frame0 EXCEPT !.kind = "NodeResource", !.nodename = name, !.fix = fix]
        IN  IF name = ""
            THEN /\ ret' = [ret EXCEPT ![p] = [kind |-> f.kind, nodename |-> name,
                                               fix |-> fix, podname |-> "",
                                               val |-> Null, err |-> "ErrEmptyNodeName"]]
                 /\ UNCHANGED <<pc, frame>>
            ELSE /\ frame' = [frame EXCEPT ![p] = f]
                 /\ pc' = [pc EXCEPT ![p] = "gnr_lock"]
                 /\ ret' = [ret EXCEPT ![p] = NoRet]
    /\ trace' = [trace EXCEPT ![p] = <<>>]
    /\ UNCHANGED <<store, deployStatus, lock, envVars, last>>

\* a variant of GNR_Lock that runs the closure on the node without the lock
GNR_LockSkipped(p) ==
    /\ pc[p] = "gnr_lock"
    /\ LET n == frame[p].nodename
       IN  /\ frame' = [frame EXCEPT ![p].node = store[n]]
           /\ pc' = [pc EXCEPT ![p] = "gnr_list"]
           /\ Call(p, <<"Lock", n, TRUE>>)
    /\ UNCHANGED <<store, deployStatus, lock, envVars, ret, last>>

\* line 60: withNodeLocked locks the node, fetches it and runs the closure,
\* or fails and leaves nr nil
GNR_Lock(p) ==
    /\ pc[p] = "gnr_lock"
    /\ LET n == frame[p].nodename
       IN  \/ /\ AcquireNodeLock(p, n)
              /\ frame' = [frame EXCEPT ![p].node = store[n]]
              /\ pc' = [pc EXCEPT ![p] = "gnr_list"]
              /\ Call(p, <<"Lock", n, TRUE>>)
           \/ /\ frame' = [frame EXCEPT ![p].gerr = "ErrLock"]
              /\ pc' = [pc EXCEPT ![p] = "gnr_done"]
              /\ Call(p, <<"Lock", n, FALSE>>)
              /\ UNCHANGED lock
    /\ UNCHANGED <<store, deployStatus, envVars, ret, last>>

\* a variant of GNR_List that keeps the node locked when the listing fails
GNR_ListKeepsLock(p) ==
    /\ pc[p] = "gnr_list"
    /\ LET n == frame[p].nodename
           node == frame[p].node
       IN  \/ /\ frame' = [frame EXCEPT ![p].nr =
                            [Name |-> node.Name, CPU |-> node.CPU, MemCap |-> node.MemCap,
                             StorageCap |-> node.StorageCap, Workloads |-> workloads[n],
                             Diffs |-> <<>>, CPUPercent |-> FZero, MemoryPercent |-> FZero,
                             StoragePercent |-> FZero, VolumePercent |-> FZero,
                             NUMAMemoryPercent |-> Null]]
              /\ pc' = [pc EXCEPT ![p] = "gnr_compute"]
              /\ Call(p, <<"ListNodeWorkloads", n, TRUE>>)
           \/ /\ frame' = [frame EXCEPT ![p].gerr = "ErrList"]
              /\ pc' = [pc EXCEPT ![p] = "gnr_done"]
              /\ Call(p, <<"ListNodeWorkloads", n, FALSE>>)
    /\ UNCHANGED <<store, deployStatus, lock, envVars, ret, last>>

\* lines 61-68: list the workloads and create the report; nr.CPU is the very
\* map node.CPU
GNR_List(p) ==
    /\ pc[p] = "gnr_list"
    /\ LET n == frame[p].nodename
           node == frame[p].node
       IN  \/ /\ frame' = [frame EXCEPT ![p].nr =
                            [Name |-> node.Name, CPU |-> node.CPU, MemCap |-> node.MemCap,
                             StorageCap |-> node.StorageCap, Workloads |-> workloads[n],
                             Diffs |-> <<>>, CPUPercent |-> FZero, MemoryPercent |-> FZero,
                             StoragePercent |-> FZero, VolumePercent |-> FZero,
                             NUMAMemoryPercent |-> Null]]
              /\ pc' = [pc EXCEPT ![p] = "gnr_compute"]
              /\ Call(p, <<"ListNodeWorkloads", n, TRUE>>)
              /\ UNCHANGED lock
           \/ /\ frame' = [frame EXCEPT ![p].gerr = "ErrList"]
              /\ pc' = [pc EXCEPT ![p] = "gnr_done"]
              /\ Call(p, <<"ListNodeWorkloads", n, FALSE>>)
              /\ ReleaseNodeLock(p, n)
    /\ UNCHANGED <<store, deployStatus, envVars, ret, last>>

\* the report after lines 70-109, the per-core check visiting the cores in `order`
Computed(nr, node, a, merged, order) ==
    LET sc == StorageCheck(node, a.storage)
    IN  [nr EXCEPT
            !.CPU = merged,
            !.CPUPercent = FDiv(a.cpus, Cardinality(DOMAIN node.InitCPU)),
            !.MemoryPercent = FDiv(a.memory, node.InitMemCap),
            !.NUMAMemoryPercent = NUMAPercent(node),
            !.VolumePercent = FDiv(node.VolumeUsed, VolumeTotal(node.InitVolume)),
            !.StoragePercent = sc.percent,
            !.Diffs = CPUUsedDiff(node, a.cpus)
                      \o CoreDiffs(node.InitCPU, merged, order)
                      \o MemoryDiff(node, a.memory)
                      \o sc.diffs]

\* a variant of GNR_Compute in which the fetched node shares its CPU map with
\* the persisted node
GNR_ComputeShared(p) ==
    /\ pc[p] = "gnr_compute"
    /\ LET node == frame[p].node
           a == Accumulate(frame[p].nr.Workloads)
           merged == CPUMapAdd(node.CPU, a.cpumap)
       IN  /\ \E order \in Orders(DOMAIN merged) :
                frame' = [frame EXCEPT ![p].acc = a,
                                       ![p].node = [node EXCEPT !.CPU = merged],
                                       ![p].nr = Computed(frame[p].nr, node, a, merged, order)]
           /\ store' = [store EXCEPT ![node.Name].CPU = merged]
    /\ pc' = [pc EXCEPT ![p] = "gnr_validate"]
    /\ UNCHANGED <<deployStatus, lock, envVars, ret, trace, last>>

\* lines 70-109: sums, percentages and the drift checks; node.CPU.Add(cpumap)
\* changes the fetched node's map in place, and with it nr.CPU
GNR_Compute(p) ==
    /\ pc[p] = "gnr_compute"
    /\ LET node == frame[p].node
           a == Accumulate(frame[p].nr.Workloads)
           merged == CPUMapAdd(node.CPU, a.cpumap)
       IN  \E order \in Orders(DOMAIN merged) :
             frame' = [frame EXCEPT ![p].acc = a,
                                    ![p].node = [node EXCEPT !.CPU = merged],
                                    ![p].nr = Computed(frame[p].nr, node, a, merged, order)]
    /\ pc' = [pc EXCEPT ![p] = "gnr_validate"]
    /\ UNCHANGED <<store, deployStatus, lock, envVars, ret, trace, last>>

\* a variant of GNR_Validate that enters the correction whatever fix says
GNR_ValidateAlwaysFix(p) ==
    /\ pc[p] = "gnr_validate"
    /\ LET n == frame[p].nodename
           bad == n \in validateErr
       IN  /\ frame' = [frame EXCEPT ![p].nr.Diffs =
                            IF bad THEN Append(@, <<"validate", n>>) ELSE @]
           /\ Call(p, <<"ResourceValidate", n, ~bad>>)
    /\ pc' = [pc EXCEPT ![p] = "fix_cond"]
    /\ UNCHANGED <<store, deployStatus, lock, envVars, ret, last>>

\* a variant of GNR_Validate after which the node lock is given up before the
\* correction runs
GNR_ValidateEarlyUnlock(p) ==
    /\ pc[p] = "gnr_validate"
    /\ LET n == frame[p].nodename
           bad == n \in validateErr
       IN  /\ frame' = [frame EXCEPT ![p].nr.Diffs =
                            IF bad THEN Append(@, <<"validate", n>>) ELSE @]
           /\ Call(p, <<"ResourceValidate", n, ~bad>>)
           /\ ReleaseNodeLock(p, n)
    /\ pc' = [pc EXCEPT ![p] = IF frame[p].fix THEN "fix_cond" ELSE "gnr_return"]
    /\ UNCHANGED <<store, deployStatus, envVars, ret, last>>

\* lines 111-115: the engine's validation, then the branch on fix
GNR_Validate(p) ==
    /\ pc[p] = "gnr_validate"
    /\ LET n == frame[p].nodename
           bad == n \in validateErr
       IN  /\ frame' = [frame EXCEPT ![p].nr.Diffs =
                            IF bad THEN Append(@, <<"validate", n>>) ELSE @]
           /\ Call(p, <<"ResourceValidate", n, ~bad>>)
    /\ pc' = [pc EXCEPT ![p] = IF frame[p].fix THEN "fix_cond" ELSE "gnr_return"]
    /\ UNCHANGED <<store, deployStatus, lock, envVars, ret, last>>

\* a variant of FIX_Cond that falls back to the locked snapshot when GetNode fails
FIX_CondFallback(p) ==
    /\ pc[p] = "fix_cond"
    /\ LET n == frame[p].nodename
           f == frame[p]
       IN  \/ /\ frame' = [frame EXCEPT ![p].n =
                    FixCompute(store[n], f.node, f.acc.cpus, f.acc.memory, f.acc.storage)]
              /\ pc' = [pc EXCEPT ![p] = TxnAfterCond(Nil)]
              /\ Call(p, <<"GetNode", n, TRUE>>)
           \/ /\ frame' = [frame EXCEPT ![p].n =
                    FixCompute(f.node, f.node, f.acc.cpus, f.acc.memory, f.acc.storage)]
              /\ pc' = [pc EXCEPT ![p] = TxnAfterCond(Nil)]
              /\ Call(p, <<"GetNode", n, FALSE>>)
    /\ UNCHANGED <<store, deployStatus, lock, envVars, ret, last>>

\* lines 129-140: the compute phase of the correction
FIX_Cond(p) ==
    /\ pc[p] = "fix_cond"
    /\ LET n == frame[p].nodename
           f == frame[p]
       IN  \/ /\ frame' = [frame EXCEPT ![p].n =
                    FixCompute(store[n], f.node, f.acc.cpus, f.acc.memory, f.acc.storage)]
              /\ pc' = [pc EXCEPT ![p] = TxnAfterCond(Nil)]
              /\ Call(p, <<"GetNode", n, TRUE>>)
           \/ /\ frame' = [frame EXCEPT ![p].ferr = "ErrGetNode"]
              /\ pc' = [pc EXCEPT ![p] = TxnAfterCond("ErrGetNode")]
              /\ Call(p, <<"GetNode", n, FALSE>>)
    /\ UNCHANGED <<store, deployStatus, lock, envVars, ret, last>>

\* lines 141-143: the commit phase of the correction
FIX_Then(p) ==
    /\ pc[p] = "fix_then"
    /\ LET n == frame[p].n.Name
       IN  \/ /\ store' = [store EXCEPT ![n] = frame[p].n]
              /\ Call(p, <<"UpdateNodes", n, TRUE>>)
              /\ UNCHANGED frame
           \/ /\ frame' = [frame EXCEPT ![p].ferr = "ErrUpdateNodes"]
              /\ Call(p, <<"UpdateNodes", n, FALSE>>)
              /\ UNCHANGED store
    /\ pc' = [pc EXCEPT ![p] = "gnr_return"]
    /\ UNCHANGED <<deployStatus, lock, envVars, ret, last>>

\* a variant of ClosureResult that passes the correction's error on
ClosureResultPropagated(ferr) == ferr

\* lines 116-121: a failed correction is logged, the closure returns nil
ClosureResult(ferr) == Nil

\* a variant of GNR_Return in which a pod report keeps its node locks
GNR_ReturnPodKeepsLock(p) ==
    /\ pc[p] = "gnr_return"
    /\ LET n == frame[p].nodename
           fix == frame[p].fix
       IN  /\ IF frame[p].kind = "PodResource" THEN UNCHANGED lock
              ELSE ReleaseNodeLock(p, n)
           /\ frame' = [q \in Procs |->
                 IF q = p THEN [frame[p] EXCEPT !.gerr = ClosureResult(frame[p].ferr)]
                 ELSE IF fix /\ frame[q].nodename = n /\ frame[q].nr # Null
                      THEN [frame[q] EXCEPT !.stale = TRUE]
                      ELSE frame[q]]
           /\ last' = IF fix /\ last.node = n THEN NoLast ELSE last
           /\ Call(p, <<"Unlock", n, TRUE>>)
    /\ pc' = [pc EXCEPT ![p] = "gnr_done"]
    /\ UNCHANGED <<store, deployStatus, envVars, ret>>

\* lines 121-122: the closure returns, withNodeLocked unlocks the node and
\* doGetNodeResource returns nr and the closure's error (line 60 reads nr after
\* the call of withNodeLocked, as the gc compiler orders it).  History: a pass
\* with fix makes the reports other callers still hold of this node stale.
GNR_Return(p) ==
    /\ pc[p] = "gnr_return"
    /\ LET n == frame[p].nodename
           fix == frame[p].fix
       IN  /\ ReleaseNodeLock(p, n)
           /\ frame' = [q \in Procs |->
                 IF q = p THEN [frame[p] EXCEPT !.gerr = ClosureResult(frame[p].ferr)]
                 ELSE IF fix /\ frame[q].nodename = n /\ frame[q].nr # Null
                      THEN [frame[q] EXCEPT !.stale = TRUE]
                      ELSE frame[q]]
           /\ last' = IF fix /\ last.node = n THEN NoLast ELSE last
           /\ Call(p, <<"Unlock", n, TRUE>>)
    /\ pc' = [pc EXCEPT ![p] = "gnr_done"]
    /\ UNCHANGED <<store, deployStatus, envVars, ret>>

\* lines 45-48: NodeResource gets the report or the error back
NR_AfterGNR(p) ==
    /\ pc[p] = "gnr_done"
    /\ frame[p].kind = "NodeResource"
    /\ IF frame[p].gerr # Nil
       THEN Return(p, Null, frame[p].gerr)
       ELSE /\ frame' = [frame EXCEPT ![p].i = 1]
            /\ pc' = [pc EXCEPT ![p] = "nr_inspect"]
            /\ UNCHANGED ret
    /\ UNCHANGED <<store, deployStatus, lock, envVars, trace, last>>

\* a variant of NR_Inspect that leaves the loop at the first failed probe
NR_InspectBreak(p) ==
    /\ pc[p] = "nr_inspect"
    /\ frame[p].i <= Len(frame[p].nr.Workloads)
    /\ LET w == frame[p].nr.Workloads[frame[p].i]
           bad == w.ID \in dead
       IN  /\ frame' = [frame EXCEPT ![p].i = IF bad THEN Len(frame[p].nr.Workloads) + 1
                                              ELSE @ + 1,
                                     ![p].nr.Diffs =
                                        IF bad THEN Append(@, <<"inspect", w.ID>>) ELSE @]
           /\ Call(p, <<"Inspect", w.ID, ~bad>>)
    /\ UNCHANGED <<store, deployStatus, lock, envVars, pc, ret, last>>

\* lines 49-54: probe one workload
NR_Inspect(p) ==
    /\ pc[p] = "nr_inspect"
    /\ frame[p].i <= Len(frame[p].nr.Workloads)
    /\ LET w == frame[p].nr.Workloads[frame[p].i]
           bad == w.ID \in dead
       IN  /\ frame' = [frame EXCEPT ![p].i = @ + 1,
                                     ![p].nr.Diffs =
                                        IF bad THEN Append(@, <<"inspect", w.ID>>) ELSE @]
           /\ Call(p, <<"Inspect", w.ID, ~bad>>)
    /\ UNCHANGED <<store, deployStatus, lock, envVars, pc, ret, last>>

\* what two reports are compared on: the percentages and the set of diffs
RepOf(nr) ==
    [CPUPercent |-> nr.CPUPercent, MemoryPercent |-> nr.MemoryPercent,
     StoragePercent |-> nr.StoragePercent, VolumePercent |-> nr.VolumePercent,
     NUMAMemoryPercent |-> nr.NUMAMemoryPercent,
     Diffs |-> {nr.Diffs[k] : k \in 1..Len(nr.Diffs)}]

\* line 55: return the report
NR_Return(p) ==
    /\ pc[p] = "nr_inspect"
    /\ frame[p].i > Len(frame[p].nr.Workloads)
    /\ Return(p, frame[p].nr, frame[p].gerr)
    /\ last' = IF frame[p].stale THEN last
               ELSE [node |-> frame[p].nodename, fix |-> frame[p].fix,
                     ok |-> frame[p].fix /\ frame[p].ferr = Nil,
                     rep |-> RepOf(frame[p].nr)]
    /\ UNCHANGED <<store, deployStatus, lock, envVars, trace>>

\* ------------------------------------------------------------- PodResource
\* lines 18-27: list the pod's nodes
StartPodResource(p) ==
    /\ pc[p] = "idle"
    /\ \E pod \in Pods :
        LET f == [Frame0 EXCEPT !.kind = "PodResource", !.podname = pod]
        IN  \/ /\ frame' = [frame EXCEPT ![p] = [f EXCEPT !.nodes = PodNodes(pod), !.i = 1]]
               /\ pc' = [pc EXCEPT ![p] = "pr_loop"]
               /\ trace' = [trace EXCEPT ![p] = << <<"ListPodNodes", pod, TRUE>> >>]
               /\ ret' = [ret EXCEPT ![p] = NoRet]
            \/ /\ ret' = [ret EXCEPT ![p] = [kind |-> f.kind, nodename |-> "", fix |-> FALSE,
                                             podname |-> pod, val |-> Null,
                                             err |-> "ErrListPodNodes"]]
               /\ trace' = [trace EXCEPT ![p] = << <<"ListPodNodes", pod, FALSE>> >>]
               /\ UNCHANGED <<pc, frame>>
    /\ UNCHANGED <<store, deployStatus, lock, envVars, last>>

\* lines 28-29 and 35: take the next node of the listing, or return the result
PR_Loop(p) ==
    /\ pc[p] = "pr_loop"
    /\ IF frame[p].i <= Len(frame[p].nodes)
       THEN /\ frame' = [frame EXCEPT ![p].nodename = frame[p].nodes[frame[p].i],
                                      ![p].fix = FALSE, ![p].gerr = Nil]
            /\ pc' = [pc EXCEPT ![p] = "gnr_lock"]
            /\ UNCHANGED ret
       ELSE Return(p, [Name |-> frame[p].podname, NodesResource |-> frame[p].r], Nil)
    /\ UNCHANGED <<store, deployStatus, lock, envVars, trace, last>>

\* a variant of PR_AfterGNR that skips a node whose report failed and goes on
PR_AfterGNRSkipFailed(p) ==
    /\ pc[p] = "gnr_done"
    /\ frame[p].kind = "PodResource"
    /\ frame' = [frame EXCEPT ![p].r = IF frame[p].gerr # Nil THEN @
                                       ELSE Append(@, frame[p].nr),
                              ![p].i = @ + 1, ![p].gerr = Nil,
                              ![p].nr = Null, ![p].node = Null, ![p].acc = Null,
                              ![p].stale = FALSE]
    /\ pc' = [pc EXCEPT ![p] = "pr_loop"]
    /\ UNCHANGED <<store, deployStatus, lock, envVars, ret, trace, last>>

\* lines 29-33: the node's report is appended, or its error ends the call
PR_AfterGNR(p) ==
    /\ pc[p] = "gnr_done"
    /\ frame[p].kind = "PodResource"
    /\ IF frame[p].gerr # Nil
       THEN Return(p, Null, frame[p].gerr)
       ELSE /\ frame' = [frame EXCEPT ![p].r = Append(@, frame[p].nr), ![p].i = @ + 1,
                                      ![p].nr = Null, ![p].node = Null, ![p].acc = Null,
                                      ![p].stale = FALSE]
            /\ pc' = [pc EXCEPT ![p] = "pr_loop"]
            /\ UNCHANGED ret
    /\ UNCHANGED <<store, deployStatus, lock, envVars, trace, last>>

\* ------------------------------------------------------------------- remap
\* a change of resource binding on a node leads to a remap of that node
StartRemap(p) ==
    /\ pc[p] = "idle"
    /\ \E n \in Nodes :
         frame' = [frame EXCEPT ![p] = [Frame0 EXCEPT !.kind = "Remap", !.nodename = n]]
    /\ pc' = [pc EXCEPT ![p] = "rm_lock"]
    /\ trace' = [trace EXCEPT ![p] = <<>>]
    /\ ret' = [ret EXCEPT ![p] = NoRet]
    /\ cancelled' = [cancelled EXCEPT ![p] = ""]
    /\ UNCHANGED <<store, deployStatus, lock, workloads, validateErr, dead, last>>

\* the caller of doRemapResourceAndLog takes the node lock (comment at line 166)
RM_Lock(p) ==
    /\ pc[p] = "rm_lock"
    /\ LET n == frame[p].nodename
       IN  /\ AcquireNodeLock(p, n)
           /\ frame' = [frame EXCEPT ![p].node = store[n]]
           /\ Call(p, <<"Lock", n, TRUE>>)
    /\ pc' = [pc EXCEPT ![p] = "rm_list"]
    /\ UNCHANGED <<store, deployStatus, envVars, ret, last>>

\* lines 172-184: the remap options
RemapOptions(node, ws) ==
    [CPUAvailable |-> node.CPU, CPUInit |-> node.InitCPU,
     WorkloadResources |->
        [k \in 1..Len(ws) |-> [ID |-> ws[k].ID, CPU |-> ws[k].CPU,
                               Quota |-> ws[k].CPUQuotaLimit,
                               NUMANode |-> ws[k].NUMANode]]]

\* the request that led to the remap is cancelled, or completes, while the
\* remap is at the entry of doRemapResourceAndLog, at the submission or in the
\* drain loop
CancelRequest(p) ==
    /\ pc[p] \in {"rm_list", "rm_submit", "rm_drain"}
    /\ cancelled[p] = ""
    /\ cancelled' = [cancelled EXCEPT ![p] = pc[p]]
    /\ UNCHANGED <<store, deployStatus, lock, workloads, validateErr, dead, pc, frame,
                   ret, trace, last>>

\* a store or engine call honours the cancellation of the context it is given
Live(p, ctx) == ctx = "detached" \/ cancelled[p] = ""

\* a variant of RemapCtx that hands the request's context on
RemapCtxInherited == "request"

\* lines 191-192: a new context, derived from context.Background() and bounded
\* by the global timeout (its expiry is one of the failures of the calls below)
RemapCtx == "detached"

\* lines 190-194 and 167-184: make the context, list the workloads, build the
\* options
RM_List(p) ==
    /\ pc[p] = "rm_list"
    /\ LET n == frame[p].nodename
           ctx == RemapCtx
       IN  IF Live(p, ctx)
           THEN \/ /\ frame' = [frame EXCEPT ![p].ctx = ctx,
                                              ![p].remapOpts =
                                     RemapOptions(frame[p].node, workloads[n])]
                   /\ pc' = [pc EXCEPT ![p] = "rm_submit"]
                   /\ Call(p, <<"ListNodeWorkloads", n, TRUE>>)
                \/ /\ frame' = [frame EXCEPT ![p].ctx = ctx,
                                              ![p].logged = Append(@, <<"", "ErrList">>)]
                   /\ pc' = [pc EXCEPT ![p] = "rm_return"]
                   /\ Call(p, <<"ListNodeWorkloads", n, FALSE>>)
           ELSE /\ frame' = [frame EXCEPT ![p].ctx = ctx,
                                          ![p].logged = Append(@, <<"", "ErrCanceled">>)]
                /\ pc' = [pc EXCEPT ![p] = "rm_return"]
                /\ Call(p, <<"ListNodeWorkloads", n, FALSE>>)
    /\ UNCHANGED <<store, deployStatus, lock, envVars, ret, last>>

\* lines 185-186 and 194: the engine takes the request and answers with a
\* stream of one message per workload, or refuses
RM_Submit(p) ==
    /\ pc[p] = "rm_submit"
    /\ LET n == frame[p].nodename
           res == frame[p].remapOpts.WorkloadResources
       IN  IF Live(p, frame[p].ctx)
           THEN \/ \E failed \in SUBSET {res[k].ID : k \in 1..Len(res)} :
                     LET msgs == [k \in 1..Len(res) |->
                                    <<res[k].ID,
                                      IF res[k].ID \in failed THEN "ErrRemap" ELSE Nil>>]
                     IN  /\ frame' = [frame EXCEPT ![p].ch = msgs, ![p].sent = msgs,
                                                      ![p].streamed = TRUE]
                         /\ pc' = [pc EXCEPT ![p] = "rm_drain"]
                         /\ Call(p, <<"VirtualizationResourceRemap", n, TRUE>>)
                \/ /\ frame' = [frame EXCEPT ![p].logged = Append(@, <<"", "ErrEngine">>)]
                   /\ pc' = [pc EXCEPT ![p] = "rm_return"]
                   /\ Call(p, <<"VirtualizationResourceRemap", n, FALSE>>)
           ELSE /\ frame' = [frame EXCEPT ![p].logged = Append(@, <<"", "ErrCanceled">>)]
                /\ pc' = [pc EXCEPT ![p] = "rm_return"]
                /\ Call(p, <<"VirtualizationResourceRemap", n, FALSE>>)
    /\ UNCHANGED <<store, deployStatus, lock, envVars, ret, last>>

\* a variant of RM_Drain that leaves the loop at the first failed message
RM_DrainStopAtError(p) ==
    /\ pc[p] = "rm_drain"
    /\ IF frame[p].ch # <<>>
       THEN /\ frame' = [frame EXCEPT ![p].ch = Tail(@),
                                      ![p].logged = Append(@, Head(frame[p].ch))]
            /\ pc' = [pc EXCEPT ![p] =
                        IF Head(frame[p].ch)[2] # Nil THEN "rm_return" ELSE "rm_drain"]
       ELSE /\ pc' = [pc EXCEPT ![p] = "rm_return"]
            /\ UNCHANGED frame
    /\ UNCHANGED <<store, deployStatus, lock, envVars, ret, trace, last>>

\* lines 195-198: log the next message of the stream, or leave the loop when
\* the stream is closed; an engine whose context was cancelled closes the
\* stream without the messages still due
RM_Drain(p) ==
    /\ pc[p] = "rm_drain"
    /\ IF frame[p].ch # <<>>
       THEN /\ frame' = IF Live(p, frame[p].ctx)
                        THEN [frame EXCEPT ![p].ch = Tail(@),
                                           ![p].logged = Append(@, Head(frame[p].ch))]
                        ELSE [frame EXCEPT ![p].ch = <<>>]
            /\ UNCHANGED pc
       ELSE /\ pc' = [pc EXCEPT ![p] = "rm_return"]
            /\ UNCHANGED frame
    /\ UNCHANGED <<store, deployStatus, lock, envVars, ret, trace, last>>

\* line 199: doRemapResourceAndLog returns nothing; its caller unlocks the node
RM_Return(p) ==
    /\ pc[p] = "rm_return"
    /\ ReleaseNodeLock(p, frame[p].nodename)
    /\ Return(p, [streamed |-> frame[p].streamed, sent |-> frame[p].sent,
                  logged |-> frame[p].logged], Nil)
    /\ Call(p, <<"Unlock", frame[p].nodename, TRUE>>)
    /\ UNCHANGED <<store, deployStatus, envVars, last>>

\* --------------------------------------------------------- doAllocResource
\* the arguments of doAllocResource: the candidate nodes and the request
StartAlloc(p) ==
    /\ pc[p] = "idle"
    /\ \E S \in (SUBSET Nodes) \ {{}}, cnt \in 1..MaxCount :
         frame' = [frame EXCEPT ![p] =
                     [Frame0 EXCEPT !.kind = "Alloc",
                                    !.nodeMap = [n \in S |-> store[n]],
                                    !.opts = [Count |-> cnt, Memory |-> 1]]]
    /\ pc' = [pc EXCEPT ![p] = "al_calc"]
    /\ trace' = [trace EXCEPT ![p] = <<>>]
    /\ ret' = [ret EXCEPT ![p] = NoRet]
    /\ UNCHANGED <<store, deployStatus, lock, envVars, last>>

NoAlloc(err) == [plans |-> Null, deployMap |-> Null, err |-> err]

\* a variant of AL_Calc that goes on to the staging when the calculation failed
AL_CalcIgnored(p) ==
    /\ pc[p] = "al_calc"
    /\ \/ /\ Call(p, <<"CalculateCapacity",
                     CalculateCapacity(frame[p].nodeMap, frame[p].opts).infos, TRUE>>)
       \/ /\ Call(p, <<"CalculateCapacity", Null, FALSE>>)
    /\ frame' = [frame EXCEPT ![p].calc =
                    CalculateCapacity(frame[p].nodeMap, frame[p].opts)]
    /\ pc' = [pc EXCEPT ![p] = "al_stage"]
    /\ UNCHANGED <<store, deployStatus, lock, envVars, ret, last>>

\* lines 150-153: the capacity calculation
AL_Calc(p) ==
    /\ pc[p] = "al_calc"
    /\ \/ /\ frame' = [frame EXCEPT ![p].calc =
                          CalculateCapacity(frame[p].nodeMap, frame[p].opts)]
          /\ pc' = [pc EXCEPT ![p] = "al_stage"]
          /\ Call(p, <<"CalculateCapacity",
                     CalculateCapacity(frame[p].nodeMap, frame[p].opts).infos, TRUE>>)
          /\ UNCHANGED ret
       \/ /\ Return(p, NoAlloc("ErrCalc"), "ErrCalc")
          /\ Call(p, <<"CalculateCapacity", Null, FALSE>>)
    /\ UNCHANGED <<store, deployStatus, lock, envVars, last>>

\* a variant of AL_Stage that goes on to the placement when staging failed
AL_StageIgnored(p) ==
    /\ pc[p] = "al_stage"
    /\ LET infos == frame[p].calc.infos
       IN  \/ /\ deployStatus' = [opts |-> frame[p].opts, infos |-> infos]
              /\ Call(p, <<"MakeDeployStatus", infos, TRUE>>)
           \/ /\ Call(p, <<"MakeDeployStatus", infos, FALSE>>)
              /\ UNCHANGED deployStatus
    /\ pc' = [pc EXCEPT ![p] = "al_deploy"]
    /\ UNCHANGED <<store, lock, envVars, frame, ret, last>>

\* lines 154-156: stage the deploy status
AL_Stage(p) ==
    /\ pc[p] = "al_stage"
    /\ LET infos == frame[p].calc.infos
       IN  \/ /\ deployStatus' = [opts |-> frame[p].opts, infos |-> infos]
              /\ pc' = [pc EXCEPT ![p] = "al_deploy"]
              /\ Call(p, <<"MakeDeployStatus", infos, TRUE>>)
              /\ UNCHANGED <<frame, ret>>
           \/ /\ Return(p, NoAlloc("ErrMakeDeployStatus"), "ErrMakeDeployStatus")
              /\ Call(p, <<"MakeDeployStatus", infos, FALSE>>)
              /\ UNCHANGED deployStatus
    /\ UNCHANGED <<store, lock, envVars, last>>

\* lines 157-162: the placement strategy
AL_Deploy(p) ==
    /\ pc[p] = "al_deploy"
    /\ LET c == frame[p].calc
           opts == frame[p].opts
       IN  \/ /\ SumMap(c.total) >= opts.Count
              /\ Return(p, [plans |-> c.plans,
                            deployMap |-> StrategyDeploy(opts, c.infos, c.total),
                            err |-> Nil], Nil)
              /\ Call(p, <<"Deploy", c.infos, TRUE>>)
           \/ /\ Return(p, NoAlloc("ErrDeploy"), "ErrDeploy")
              /\ Call(p, <<"Deploy", c.infos, FALSE>>)
    /\ UNCHANGED <<store, deployStatus, lock, envVars, last>>

\* ------------------------------------------------------- the specifications
InitCallers ==
    /\ lock = [n \in Nodes |-> None]
    /\ deployStatus = Null
    /\ pc = [p \in Procs |-> "idle"]
    /\ frame = [p \in Procs |-> Frame0]
    /\ ret = [p \in Procs |-> NoRet]
    /\ trace = [p \in Procs |-> <<>>]
    /\ last = NoLast
    /\ cancelled = [p \in Procs |-> ""]

\* two callers of the reporter and the remapper; n1 carries a workload and is
\* booked as idle, n2 is in order
InitWorkloads == [n \in Nodes |-> IF n = "n1" THEN <<W1>> ELSE <<>>]
InitStore == [n \in Nodes |-> IF n = "n1" THEN IdleNode("n1")
                              ELSE ConsistentNode("n2", <<>>)]

Init ==
    /\ InitCallers
    /\ workloads = InitWorkloads
    /\ store = InitStore
    /\ validateErr = {}
    /\ dead = {}

Step(p) ==
    \/ StartNodeResource(p) \/ GNR_Lock(p) \/ GNR_List(p) \/ GNR_Compute(p)
    \/ GNR_Validate(p) \/ FIX_Cond(p) \/ FIX_Then(p) \/ GNR_Return(p)
    \/ NR_AfterGNR(p) \/ NR_Inspect(p) \/ NR_Return(p)
    \/ StartPodResource(p) \/ PR_Loop(p) \/ PR_AfterGNR(p)
    \/ StartRemap(p) \/ RM_Lock(p) \/ RM_List(p) \/ RM_Submit(p) \/ RM_Drain(p)
    \/ RM_Return(p)

Next == \E p \in Procs : Step(p)

Spec == Init /\ [][Next]_vars

\* one caller of NodeResource over every bookkeeping of n1 within the bounds
InitData ==
    /\ InitCallers
    /\ \E ws \in {<<>>, <<W1>>, <<W1, W2>>} :
         workloads = [n \in Nodes |-> IF n = "n1" THEN ws ELSE <<W3>>]
    /\ \E cpu \in CPUMaps, used \in UsedValues, memcap \in 0..MaxMem,
          storagecap \in 0..MaxStorage, initstorage \in {0, MaxStorage} :
         store = [n \in Nodes |->
                    IF n = "n1"
                    THEN MakeNode("n1", cpu, used, memcap, storagecap, initstorage)
                    ELSE ConsistentNode("n2", <<W3>>)]
    /\ validateErr \in {{}, {"n1"}}
    /\ dead \in {{}, {"w1"}}

StepData(p) ==
    \/ StartNodeResource(p) \/ GNR_Lock(p) \/ GNR_List(p) \/ GNR_Compute(p)
    \/ GNR_Validate(p) \/ FIX_Cond(p) \/ FIX_Then(p) \/ GNR_Return(p)
    \/ NR_AfterGNR(p) \/ NR_Inspect(p) \/ NR_Return(p)

NextData == StepData("p1")

DataSpec == InitData /\ [][NextData]_vars

\* one caller of doAllocResource over nodes with every free memory
InitAlloc ==
    /\ InitCallers
    /\ workloads = [n \in Nodes |-> <<>>]
    /\ \E m1 \in 0..MaxMem, m2 \in 0..MaxMem :
         store = [n \in Nodes |->
                    MakeNode(n, InitCPUMap, 0, IF n = "n1" THEN m1 ELSE m2,
                             MaxStorage, MaxStorage)]
    /\ validateErr = {}
    /\ dead = {}

StepAlloc(p) == StartAlloc(p) \/ AL_Calc(p) \/ AL_Stage(p) \/ AL_Deploy(p)

NextAlloc == StepAlloc("p1")

AllocSpec == InitAlloc /\ [][NextAlloc]_vars

\* one remap caller; n1 carries one or two workloads and is in order or booked
\* idle, n2 carries one workload
InitRemap ==
    /\ InitCallers
    /\ \E ws \in {<<W1>>, <<W1, W2>>} :
         /\ workloads = [n \in Nodes |-> IF n = "n1" THEN ws ELSE <<W3>>]
         /\ \E s \in {ConsistentNode("n1", ws), IdleNode("n1")} :
              store = [n \in Nodes |-> IF n = "n1" THEN s
                                       ELSE ConsistentNode("n2", <<W3>>)]
    /\ validateErr = {}
    /\ dead = {}

StepRemap(p) ==
    \/ StartRemap(p) \/ RM_Lock(p) \/ RM_List(p) \/ RM_Submit(p) \/ RM_Drain(p)
    \/ RM_Return(p) \/ CancelRequest(p)

NextRemap == StepRemap("p1")

RemapSpec == InitRemap /\ [][NextRemap]_vars

\* the steps of a call of NodeResource, of PodResource and of a remap that is
\* in progress
RunNode(p) ==
    \/ GNR_Lock(p) \/ GNR_List(p) \/ GNR_Compute(p) \/ GNR_Validate(p)
    \/ FIX_Cond(p) \/ FIX_Then(p) \/ GNR_Return(p)
    \/ NR_AfterGNR(p) \/ NR_Inspect(p) \/ NR_Return(p)
RunPod(p) == PR_Loop(p) \/ PR_AfterGNR(p)
RunRemap(p) ==
    RM_Lock(p) \/ RM_List(p) \/ RM_Submit(p) \/ RM_Drain(p) \/ RM_Return(p)

\* caller p1 asks for node reports while caller p2 remaps; a call in progress
\* goes on, and the remap's caller, who waits for the node lock, gets it when
\* it is free again and again
NextLock ==
    \/ StartNodeResource("p1") \/ RunNode("p1")
    \/ StartRemap("p2") \/ RunRemap("p2")

LockSpec ==
    /\ Init /\ [][NextLock]_vars
    /\ WF_vars(RunNode("p1")) /\ WF_vars(RunRemap("p2")) /\ SF_vars(RM_Lock("p2"))

\* both callers ask for pod reports, p1 for node reports too, p2 remaps too
NextPods ==
    \/ \E p \in Procs : StartPodResource(p) \/ RunPod(p) \/ RunNode(p)
    \/ StartNodeResource("p1")
    \/ StartRemap("p2") \/ RunRemap("p2")

PodsSpec ==
    /\ Init /\ [][NextPods]_vars
    /\ \A p \in Procs : WF_vars(RunNode(p) \/ RunPod(p))
    /\ WF_vars(RunRemap("p2")) /\ SF_vars(RM_Lock("p2"))

\* ------------------------------------------------------------- properties
\* a caller is at line 55 of NodeResource, about to return its report
AtReturn(p) ==
    /\ pc[p] = "nr_inspect"
    /\ frame[p].i > Len(frame[p].nr.Workloads)

\* a caller is inside the closure of withNodeLocked over node n, or inside
\* doRemapResourceAndLog for node n
InPass(p, n) ==
    /\ frame[p].nodename = n
    /\ pc[p] \in {"gnr_list", "gnr_compute", "gnr_validate", "fix_cond", "fix_then",
                  "gnr_return", "rm_list", "rm_submit", "rm_drain", "rm_return"}

Last(t) == t[Len(t)]

DiffSet(nr) == {nr.Diffs[k] : k \in 1..Len(nr.Diffs)}

\* the entries of a report that tell of drifted bookkeeping
DriftDiffs(diffs) == {e \in diffs : e[1] \in {"cpus", "cpu", "memory", "storage"}}

\* C1: at most one pass of the reporter, corrector or remapper works on a
\* node at a time, and whoever works on a node holds its lock, from the
\* workload listing until the correction has finished
C1_MutualExclusion ==
    \A n \in Nodes :
        /\ \A p, q \in Procs : (InPass(p, n) /\ InPass(q, n)) => p = q
        /\ \A p \in Procs : InPass(p, n) => lock[n] = p

\* C1 witness: one caller commits a correction of a node while the other one
\* waits for the same node
C1_Witness ==
    \E p, q \in Procs :
        /\ p # q
        /\ pc[p] = "fix_then"
        /\ pc[q] \in {"gnr_lock", "rm_lock"}
        /\ frame[q].nodename = frame[p].nodename

\* C2 as claimed: a report without fix that follows a call with fix on the
\* same node has no diff at all
C2_Original ==
    \A p \in Procs :
        (/\ AtReturn(p) /\ ~frame[p].fix /\ ~frame[p].stale
         /\ last.node = frame[p].nodename /\ last.fix)
        => frame[p].nr.Diffs = <<>>

\* C2 amended: a report without fix that follows a call with fix on the same
\* node whose correction was committed has no bookkeeping diff; what is left
\* are the engine's validation error and the failed probes
C2_Converges ==
    \A p \in Procs :
        (/\ AtReturn(p) /\ ~frame[p].fix /\ ~frame[p].stale
         /\ last.node = frame[p].nodename /\ last.fix /\ last.ok)
        => DiffSet(frame[p].nr) \subseteq
              {<<"validate", n>> : n \in validateErr \cap {frame[p].nodename}}
              \cup {<<"inspect", id>> : id \in dead}

\* C2 witness: the call with fix reported drift, committed its correction, and
\* the report that follows is empty
C2_Witness ==
    \E p \in Procs :
        /\ AtReturn(p) /\ ~frame[p].fix /\ ~frame[p].stale
        /\ last.node = frame[p].nodename /\ last.fix /\ last.ok
        /\ DriftDiffs(last.rep.Diffs) # {}
        /\ frame[p].nr.Diffs = <<>>

\* C3 as claimed: after the checks of a pass, every core whose initial share
\* differs from the recorded share plus the workloads' shares has a per-core
\* diff, also a core that only InitCPU knows
C3_Conservation ==
    \A p \in Procs :
        pc[p] = "gnr_validate" =>
            LET n == frame[p].nodename
                rec == store[n]
                used == frame[p].acc.cpumap
            IN  \A i \in (DOMAIN rec.InitCPU) \cup (DOMAIN rec.CPU) \cup (DOMAIN used) :
                    Get(rec.InitCPU, i) # Get(rec.CPU, i) + Get(used, i)
                    => \E e \in DiffSet(frame[p].nr) : e[1] = "cpu" /\ e[2] = i

\* C4: the strategy is invoked only after MakeDeployStatus succeeded with the
\* strategy info of this call's capacity calculation; when staging fails the
\* strategy is not invoked and the call returns an error and nothing else
C4_StagingOrder ==
    \A p \in Procs :
        LET t == trace[p]
        IN  /\ \A k \in 1..Len(t) :
                 t[k][1] = "Deploy" =>
                    /\ k = 3
                    /\ t[1][1] = "CalculateCapacity" /\ t[1][3]
                    /\ t[2][1] = "MakeDeployStatus" /\ t[2][3]
                    /\ t[2][2] = t[1][2] /\ t[3][2] = t[1][2]
            /\ (\E k \in 1..Len(t) : t[k][1] = "MakeDeployStatus" /\ ~t[k][3]) =>
                 /\ \A k \in 1..Len(t) : t[k][1] # "Deploy"
                 /\ pc[p] = "idle" /\ ret[p].kind = "Alloc"
                 /\ ret[p].err # Nil
                 /\ ret[p].val.plans = Null /\ ret[p].val.deployMap = Null

\* C4 witness: a call that staged the status and was given a distribution
C4_Witness ==
    \E p \in Procs :
        /\ ret[p].kind = "Alloc" /\ ret[p].err = Nil
        /\ Len(trace[p]) = 3 /\ trace[p][3][1] = "Deploy" /\ trace[p][3][3]
        /\ SumMap(ret[p].val.deployMap) = 2

\* C5: doRemapResourceAndLog logs the messages of the stream in order, goes on
\* after a failed one, has logged all of them when it returns, and returns
\* no error
C5_RemapDrains ==
    \A p \in Procs :
        /\ (pc[p] \in {"rm_drain", "rm_return"} /\ frame[p].streamed) =>
              /\ frame[p].logged \o frame[p].ch = frame[p].sent
              /\ pc[p] = "rm_return" => frame[p].ch = <<>>
        /\ ret[p].kind = "Remap" =>
              /\ ret[p].err = Nil
              /\ ret[p].val.streamed => ret[p].val.logged = ret[p].val.sent

\* C5 witness: a returned remap whose stream had two messages, the first failed
C5_Witness ==
    \E p \in Procs :
        /\ ret[p].kind = "Remap" /\ ret[p].val.streamed
        /\ Len(ret[p].val.sent) = 2
        /\ ret[p].val.sent[1][2] # Nil
        /\ ret[p].val.logged = ret[p].val.sent

\* the call that process p makes in this step, if any
Calls(p, entry) == trace'[p] = Append(trace[p], entry)

\* C6: UpdateNodes is invoked only right after a successful GetNode of the
\* same call; a failed GetNode leaves the store as it is, hands the error to
\* the caller and skips the commit; nothing else changes a persisted node
C6_Transactional ==
    [][\A p \in Procs : \A n \in Nodes :
        /\ (Calls(p, <<"UpdateNodes", n, TRUE>>) \/ Calls(p, <<"UpdateNodes", n, FALSE>>))
             => (trace[p] # <<>> /\ Last(trace[p]) = <<"GetNode", n, TRUE>>)
        /\ Calls(p, <<"GetNode", n, FALSE>>)
             => /\ store' = store
                /\ frame'[p].ferr # Nil
                /\ pc'[p] = "gnr_return"
        /\ store'[n] # store[n]
             => \E q \in Procs : Calls(q, <<"UpdateNodes", n, TRUE>>)]_vars

\* C6 witness: GetNode failed and the call is past the transaction
C6_Witness ==
    \E p \in Procs :
        /\ pc[p] = "gnr_return"
        /\ trace[p] # <<>>
        /\ Last(trace[p]) = <<"GetNode", frame[p].nodename, FALSE>>

\* C7: a NodeResource call with fix that got the lock and the workload listing
\* returns its report and no error, whatever the correction did
C7_FixFailureNotFatal ==
    \A p \in Procs :
        (/\ pc[p] = "idle" /\ ret[p].kind = "NodeResource" /\ ret[p].fix
         /\ \E k \in 1..Len(trace[p]) :
               trace[p][k] = <<"ListNodeWorkloads", ret[p].nodename, TRUE>>)
        => /\ ret[p].err = Nil
           /\ ret[p].val # Null
           /\ ret[p].val.Name = ret[p].nodename

\* C7 witness: a call returned its report although UpdateNodes failed
C7_Witness ==
    \E p \in Procs :
        /\ pc[p] = "idle" /\ ret[p].kind = "NodeResource" /\ ret[p].fix
        /\ ret[p].err = Nil /\ ret[p].val # Null
        /\ \E k \in 1..Len(trace[p]) :
              trace[p][k] = <<"UpdateNodes", ret[p].nodename, FALSE>>

\* C8: a report without fix equals, in its percentages and its set of diffs,
\* the report without fix returned before it for the same node with no update
\* of the node in between
C8_Idempotent ==
    \A p \in Procs :
        (/\ AtReturn(p) /\ ~frame[p].fix /\ ~frame[p].stale
         /\ last.node = frame[p].nodename /\ ~last.fix)
        => RepOf(frame[p].nr) = last.rep

\* C8 witness: the second of two such reports, both telling of drift
C8_Witness ==
    \E p \in Procs :
        /\ AtReturn(p) /\ ~frame[p].fix /\ ~frame[p].stale
        /\ last.node = frame[p].nodename /\ ~last.fix
        /\ Cardinality(DriftDiffs(DiffSet(frame[p].nr))) >= 3

\* C9: a node with InitStorageCap = 0 is reported with StoragePercent 0 and
\* without a storage diff
C9_ZeroStorageGuard ==
    \A p \in Procs :
        /\ (frame[p].nr # Null /\ frame[p].node.InitStorageCap = 0) =>
              /\ frame[p].nr.StoragePercent = FZero
              /\ \A e \in DiffSet(frame[p].nr) : e[1] # "storage"
        /\ (/\ ret[p].kind = "NodeResource" /\ ret[p].val # Null
            /\ store[ret[p].nodename].InitStorageCap = 0) =>
              /\ ret[p].val.StoragePercent = FZero
              /\ \A e \in DiffSet(ret[p].val) : e[1] # "storage"

\* C9 witness: such a report returned for a node whose workloads use storage
\* and whose StorageCap is not the negated usage
C9_Witness ==
    \E p \in Procs :
        /\ ret[p].kind = "NodeResource" /\ ret[p].val # Null
        /\ store[ret[p].nodename].InitStorageCap = 0
        /\ Accumulate(ret[p].val.Workloads).storage > 0
        /\ ret[p].val.StorageCap > 0

\* C10 as claimed: PodResource of a pod whose listing is empty returns a
\* PodNoNodes error and no result
C10_PodNoNodes ==
    \A p \in Procs :
        (/\ pc[p] = "idle" /\ ret[p].kind = "PodResource"
         /\ trace[p] # <<>> /\ trace[p][1] = <<"ListPodNodes", ret[p].podname, TRUE>>
         /\ PodNodes(ret[p].podname) = <<>>)
        => (ret[p].err = "ErrPodNoNodes" /\ ret[p].val = Null)

\* the kind and the pod of the call a caller is in, or has returned from last
CurKind(p) == IF pc[p] = "idle" THEN ret[p].kind ELSE frame[p].kind
CurPod(p) == IF pc[p] = "idle" THEN ret[p].podname ELSE frame[p].podname

\* the nodes whose lock the caller's current call has asked for, in order
LockAttempts(t) ==
    LET locks == SelectSeq(t, LAMBDA e : e[1] = "Lock")
    IN  [k \in 1..Len(locks) |-> locks[k][2]]

IsPrefix(s, t) == Len(s) <= Len(t) /\ s = SubSeq(t, 1, Len(s))

\* C11: PodResource asks for the node locks in listing order; after a failed
\* lock or workload listing of a node it asks for no further lock and returns
\* that error and no result; a successful call returns one report per listed
\* node, in listing order
C11_PodFailFast ==
    \A p \in Procs :
        CurKind(p) = "PodResource" =>
            LET t == trace[p]
                nodes == PodNodes(CurPod(p))
            IN  /\ IsPrefix(LockAttempts(t), nodes)
                /\ \A k \in 1..Len(t) :
                      (t[k][1] \in {"Lock", "ListNodeWorkloads"} /\ ~t[k][3]) =>
                         /\ \A j \in (k + 1)..Len(t) : t[j][1] # "Lock"
                         /\ pc[p] \in {"gnr_done", "idle"}
                         /\ pc[p] = "idle" =>
                               /\ ret[p].val = Null
                               /\ ret[p].err = (IF t[k][1] = "Lock" THEN "ErrLock"
                                                ELSE "ErrList")
                /\ (pc[p] = "idle" /\ ret[p].err = Nil) =>
                      LET r == ret[p].val.NodesResource
                      IN  /\ ret[p].val.Name = ret[p].podname
                          /\ Len(r) = Len(nodes)
                          /\ \A k \in 1..Len(r) : r[k].Name = nodes[k]
                          /\ LockAttempts(t) = nodes

\* C11 witness: the workload listing of the first of two nodes failed and the
\* call has returned
C11_Witness ==
    \E p \in Procs :
        /\ pc[p] = "idle" /\ ret[p].kind = "PodResource"
        /\ Len(PodNodes(ret[p].podname)) = 2
        /\ \E k \in 1..Len(trace[p]) :
              trace[p][k] = <<"ListNodeWorkloads", PodNodes(ret[p].podname)[1], FALSE>>
        /\ ret[p].err = "ErrList" /\ ret[p].val = Null

\* the probes the caller's current call has made, in order
Probes(t) == SelectSeq(t, LAMBDA e : e[1] = "Inspect")

\* C12: a NodeResource call that returns a report has probed every workload of
\* the report exactly once, in order, also after a failed probe; the report
\* has exactly one inspect entry for each workload whose probe failed and
\* none for the others; the error returned is nil
C12_ProbeBestEffort ==
    \A p \in Procs :
        (pc[p] = "idle" /\ ret[p].kind = "NodeResource" /\ ret[p].val # Null) =>
            LET ws == ret[p].val.Workloads
                pr == Probes(trace[p])
                diffs == ret[p].val.Diffs
            IN  /\ ret[p].err = Nil
                /\ Len(pr) = Len(ws)
                /\ \A k \in 1..Len(ws) :
                      /\ pr[k] = <<"Inspect", ws[k].ID, ws[k].ID \notin dead>>
                      /\ Len(SelectSeq(diffs, LAMBDA e : e = <<"inspect", ws[k].ID>>))
                            = (IF ws[k].ID \in dead THEN 1 ELSE 0)
                /\ \A k \in 1..Len(diffs) :
                      diffs[k][1] = "inspect" => \E j \in 1..Len(ws) : diffs[k][2] = ws[j].ID

\* C12 witness: the probe of the first of two workloads failed, the second
\* one was probed all the same and the report was returned
C12_Witness ==
    \E p \in Procs :
        /\ pc[p] = "idle" /\ ret[p].kind = "NodeResource" /\ ret[p].val # Null
        /\ Len(ret[p].val.Workloads) = 2
        /\ ret[p].val.Workloads[1].ID \in dead
        /\ Probes(trace[p]) = << <<"Inspect", ret[p].val.Workloads[1].ID, FALSE>>,
                                 <<"Inspect", ret[p].val.Workloads[2].ID, TRUE>> >>

\* the log of the remap a caller is in, or has returned from last
RemapLog(p) == IF pc[p] = "idle" THEN ret[p].val.logged ELSE frame[p].logged

\* C13: the workload listing, the submission and the drain of a remap run
\* under the detached context; whenever the request's context is cancelled,
\* no step of the remap fails as cancelled, and a remap whose engine took the
\* request has logged one message for every workload of the node when it
\* returns
C13_DetachedRemap ==
    \A p \in Procs :
        CurKind(p) = "Remap" =>
            /\ pc[p] \in {"rm_submit", "rm_drain", "rm_return"} =>
                  frame[p].ctx = "detached"
            /\ \A k \in 1..Len(RemapLog(p)) : RemapLog(p)[k][2] # "ErrCanceled"
            /\ (pc[p] \in {"rm_drain", "rm_return"} /\ frame[p].streamed) =>
                  frame[p].logged \o frame[p].ch = frame[p].sent
            /\ (pc[p] = "idle" /\ ret[p].val.streamed) =>
                  /\ ret[p].val.logged = ret[p].val.sent
                  /\ Len(ret[p].val.logged) = Len(workloads[ret[p].nodename])

\* C13 witness: the request was cancelled before the detached context was
\* made, and the remap has logged the messages of both workloads
C13_Witness ==
    \E p \in Procs :
        /\ pc[p] = "idle" /\ ret[p].kind = "Remap"
        /\ cancelled[p] = "rm_list"
        /\ ret[p].val.streamed
        /\ Len(ret[p].val.logged) = 2

\* the node that one correction makes of the persisted node s with workloads ws
Corrected(s, ws) ==
    LET a == Accumulate(ws)
    IN  FixCompute(s, [s EXCEPT !.CPU = CPUMapAdd(s.CPU, a.cpumap)],
                   a.cpus, a.memory, a.storage)

\* a caller is inside the correction
InFix(p) == pc[p] \in {"fix_cond", "fix_then"}

\* C14: with callers of NodeResource(fix) on the same drifted node in any
\* interleaving, a persisted node changes only from its drifted value to the
\* value one correction gives it, so later corrections leave it as it is; and
\* the snapshot a correction works from is the persisted node of that moment
C14_ExactlyOnce ==
    [][\A n \in Nodes :
        /\ store'[n] # store[n] =>
              /\ store[n] = InitStore[n]
              /\ store'[n] = Corrected(InitStore[n], InitWorkloads[n])
        /\ \A p \in Procs :
              (InFix(p)' /\ frame'[p].nodename = n) =>
                 /\ [frame'[p].node EXCEPT !.CPU = store'[n].CPU] = store'[n]
                 /\ frame'[p].node.CPU =
                       CPUMapAdd(store'[n].CPU, frame'[p].acc.cpumap)]_vars

\* C14 witness: two calls with fix on the drifted node are in progress, both
\* have committed their correction, and the node is as one correction makes it
C14_Witness ==
    \E p, q \in Procs :
        /\ p # q
        /\ pc[p] \in {"gnr_done", "nr_inspect"} /\ pc[q] = "gnr_return"
        /\ frame[p].kind = "NodeResource" /\ frame[q].kind = "NodeResource"
        /\ frame[p].nodename = "n1" /\ frame[q].nodename = "n1"
        /\ \E k \in 1..Len(trace[p]) : trace[p][k] = <<"UpdateNodes", "n1", TRUE>>
        /\ \E k \in 1..Len(trace[q]) : trace[q][k] = <<"UpdateNodes", "n1", TRUE>>
        /\ store["n1"] # InitStore["n1"]
        /\ store["n1"] = Corrected(InitStore["n1"], InitWorkloads["n1"])

\* a caller's correction has just been committed
FixCommitted(p) ==
    /\ pc[p] = "gnr_return"
    /\ trace[p] # <<>>
    /\ Last(trace[p]) = <<"UpdateNodes", frame[p].nodename, TRUE>>

\* C15 as claimed: right after a committed correction the persisted node has
\* CPUUsed = cpus, MemCap = InitMemCap - memory, StorageCap = InitStorageCap -
\* storage and, for every core of InitCPU, CPU[i] = InitCPU[i] minus the
\* shares the workloads hold on core i
C15_PostState ==
    \A p \in Procs :
        FixCommitted(p) =>
            LET s == store[frame[p].nodename]
                a == frame[p].acc
            IN  /\ s.CPUUsed = a.cpus
                /\ s.MemCap = s.InitMemCap - a.memory
                /\ s.StorageCap = s.InitStorageCap - a.storage
                /\ \A i \in DOMAIN s.InitCPU :
                      Get(s.CPU, i) = s.InitCPU[i] - Get(a.cpumap, i)

\* C16 as claimed: after the checks of a pass, and when the correction is
\* entered, the CPU map of the report and the CPU map of the locked snapshot
\* are still the recorded shares of the persisted node
C16_WorksOnCopy ==
    \A p \in Procs :
        pc[p] \in {"gnr_validate", "fix_cond"} =>
            /\ frame[p].nr.CPU = store[frame[p].nodename].CPU
            /\ frame[p].node.CPU = store[frame[p].nodename].CPU

\* C17: a node lock is held only by a caller inside a locked pass, so never
\* by a call of doGetNodeResource that has come back, whatever its outcome;
\* every holder gives the lock up, and a remap that waits for the lock of a
\* node gets it
C17_LockReleased ==
    /\ [](\A p \in Procs : \A n \in Nodes : lock[n] = p => InPass(p, n))
    /\ \A n \in Nodes :
          /\ \A p \in Procs : (lock[n] = p) ~> (lock[n] # p)
          /\ (pc["p2"] = "rm_lock" /\ frame["p2"].nodename = n) ~> (lock[n] = "p2")

\* C17 witness: a call of doGetNodeResource has come back with the listing
\* error and the remap that waited for the lock of that node holds it
C17_Witness ==
    /\ pc["p1"] = "gnr_done" /\ frame["p1"].gerr = "ErrList"
    /\ lock[frame["p1"].nodename] = "p2"
    /\ pc["p2"] = "rm_list"

\* C18: a failed capacity calculation ends the call at once, with the error,
\* without plans or distribution, with the staged status and the nodes left as
\* they were, and neither MakeDeployStatus nor the strategy is called; plans
\* or a distribution are returned only after the calculation, the staging and
\* the placement succeeded, in that order
C18_CalcFailure ==
    /\ [][\A p \in Procs :
            Calls(p, <<"CalculateCapacity", Null, FALSE>>) =>
                /\ deployStatus' = deployStatus /\ store' = store
                /\ pc'[p] = "idle"
                /\ ret'[p].kind = "Alloc" /\ ret'[p].err = "ErrCalc"
                /\ ret'[p].val.plans = Null /\ ret'[p].val.deployMap = Null]_vars
    /\ [](\A p \in Procs :
            LET t == trace[p]
            IN  /\ (t # <<>> /\ t[1][1] = "CalculateCapacity" /\ ~t[1][3]) => Len(t) = 1
                /\ (/\ pc[p] = "idle" /\ ret[p].kind = "Alloc"
                    /\ (ret[p].val.plans # Null \/ ret[p].val.deployMap # Null)) =>
                       /\ ret[p].err = Nil
                       /\ ret[p].val.plans # Null /\ ret[p].val.deployMap # Null
                       /\ Len(t) = 3
                       /\ t[1][1] = "CalculateCapacity" /\ t[1][3]
                       /\ t[2][1] = "MakeDeployStatus" /\ t[2][3]
                       /\ t[3][1] = "Deploy" /\ t[3][3])

\* C18 witness: a call whose capacity calculation failed has returned, and
\* the status an earlier call staged is still there
C18_Witness ==
    \E p \in Procs :
        /\ pc[p] = "idle" /\ ret[p].kind = "Alloc" /\ ret[p].err = "ErrCalc"
        /\ trace[p] = << <<"CalculateCapacity", Null, FALSE>> >>
        /\ deployStatus # Null

\* C19: no caller holds two node locks at a time; remapResource itself asks
\* for no lock (the only lock of a remap is the one its caller took before);
\* every call of PodResource, NodeResource and remap comes to its end
C19_NoDeadlock ==
    /\ [](\A p \in Procs : Cardinality({n \in Nodes : lock[n] = p}) <= 1)
    /\ [](\A p \in Procs :
            CurKind(p) = "Remap" =>
                \A k \in 2..Len(trace[p]) : trace[p][k][1] # "Lock")
    /\ \A p \in Procs : (pc[p] # "idle") ~> (pc[p] = "idle")

\* C19 witness: two pod reports over the same nodes listed in opposite order,
\* each caller inside the pass over its first node
C19_Witness ==
    \E p, q \in Procs :
        /\ frame[p].kind = "PodResource" /\ frame[q].kind = "PodResource"
        /\ frame[p].nodes = <<"n1", "n2">> /\ frame[q].nodes = <<"n2", "n1">>
        /\ frame[p].i = 1 /\ frame[q].i = 1
        /\ lock["n1"] = p /\ lock["n2"] = q

\* the number of times the caller's current call has invoked UpdateNodes
Updates(t) == Len(SelectSeq(t, LAMBDA e : e[1] = "UpdateNodes"))

\* C20: UpdateNodes is invoked only by a NodeResource call with fix, for the
\* node of that call, while the caller holds that node's lock, and at most
\* once in a call; a persisted node changes only in such a step, so PodResource
\* and NodeResource without fix leave every node as it is
C20_ReadOnly ==
    [][\A p \in Procs : \A n \in Nodes :
        /\ (Calls(p, <<"UpdateNodes", n, TRUE>>) \/ Calls(p, <<"UpdateNodes", n, FALSE>>))
             => /\ frame[p].kind = "NodeResource" /\ frame[p].fix
                /\ frame[p].nodename = n
                /\ lock[n] = p
                /\ Updates(trace[p]) = 0
        /\ store'[n] # store[n]
             => \E q \in Procs :
                   /\ frame[q].kind = "NodeResource" /\ frame[q].fix
                   /\ frame[q].nodename = n
                   /\ Calls(q, <<"UpdateNodes", n, TRUE>>)
        /\ (CurKind(p)' = "PodResource" \/ (CurKind(p)' = "NodeResource" /\
               (IF pc'[p] = "idle" THEN ~ret'[p].fix ELSE ~frame'[p].fix)))
             => Updates(trace'[p]) = 0]_vars

\* C20 witness: a pod report over both nodes has returned with the drift of n1
\* in it, and the persisted nodes are what they were at the start
C20_Witness ==
    \E p \in Procs :
        /\ pc[p] = "idle" /\ ret[p].kind = "PodResource" /\ ret[p].err = Nil
        /\ Len(ret[p].val.NodesResource) = 2
        /\ \E k \in 1..2 :
              /\ ret[p].val.NodesResource[k].Name = "n1"
              /\ ret[p].val.NodesResource[k].Diffs # <<>>
        /\ store = InitStore

====
